---------------------------- MODULE Spec2Model ----------------------------
(***************************************************************************)
(* A model of the OpenMemory dashboard's client-side core:                 *)
(*                                                                         *)
(*   - the session bootstrap: the two browser stores (sessionStorage,      *)
(*     localStorage), the protected pages' checkAuth, the login page's     *)
(*     API-key login and Keycloak check, the SSO callback page, logout;    *)
(*   - the create-memory dialog's handling of the hook's notification,     *)
(*     in the three variants of CreateMemoryDialog the repository holds.   *)
(*                                                                         *)
(* JavaScript values are modelled as TLA+ strings.  Two values that are    *)
(* not strings, null and undefined, are the sentinels NULL and UNDEFINED;  *)
(* StringOf gives what setItem stores for them.                            *)
(***************************************************************************)
EXTENDS Naturals, Sequences, FiniteSets

NULL == "<null>"
UNDEFINED == "<undefined>"

\* String(v), as Storage.setItem applies it to its value.
StringOf(v) ==
  IF v = UNDEFINED THEN "undefined" ELSE IF v = NULL THEN "null" ELSE v

\* JavaScript truthiness of a string, null or undefined.
Truthy(v) == v \notin {"", NULL, UNDEFINED}

\* a || b
Or(a, b) == IF Truthy(a) THEN a ELSE b

(***************************************************************************)
(* The two stores.  A store maps each key to the string it holds, or to    *)
(* NULL when the key is absent (what getItem returns).                     *)
(***************************************************************************)
Keys == {"api_key", "user_id", "user_name", "user_email", "access_token", "auth_type"}

EmptyStore == [k \in Keys |-> NULL]

getItem(store, k) == store[k]

setItem(store, k, v) == [store EXCEPT ![k] = StringOf(v)]

\* The record the OIDC client keeps in its userStore when no user is stored.
NoUser ==
  [present |-> FALSE, sub |-> UNDEFINED, preferred_username |-> UNDEFINED,
   name |-> UNDEFINED, email |-> UNDEFINED, access_token |-> UNDEFINED,
   expired |-> FALSE]

IdpUser(sub, preferred_username, name, access_token) ==
  [present |-> TRUE, sub |-> sub, preferred_username |-> preferred_username,
   name |-> name, email |-> UNDEFINED, access_token |-> access_token,
   expired |-> FALSE]

\* The users the identity provider may authenticate.
IdpUsers ==
  <<IdpUser("kc-sub-1", "kcuser", "Kay Cloak", "tok-1"),
    IdpUser("kc-sub-1", UNDEFINED, "Kay Cloak", "tok-1"),
    IdpUser("kc-sub-1", UNDEFINED, UNDEFINED, ""),
    IdpUser("", UNDEFINED, UNDEFINED, "tok-1")>>

\* The keys a user may type into the login form (the input is `required`).
ApiKeys == {"key-alice"}

LoginResponse(ok, success, user_id, name, detail) ==
  [ok |-> ok, success |-> success, user_id |-> user_id, name |-> name,
   detail |-> detail]

\* The accounts the backend may hold for the key: its answers to a valid login.
Accounts ==
  <<LoginResponse(TRUE, TRUE, "u-1", "Alice", UNDEFINED),
    LoginResponse(TRUE, TRUE, "u-2", UNDEFINED, UNDEFINED)>>

\* The people at the browser: which identity-provider user and which backend
\* account a behaviour is about.
Worlds == {<<1, 1>>, <<2, 2>>, <<3, 1>>, <<4, 2>>}

\* The answers the login page takes as a rejected login: `response.ok` is
\* false or the body's `success` is.
Rejections ==
  {LoginResponse(FALSE, FALSE, UNDEFINED, UNDEFINED, "Invalid API key"),
   LoginResponse(TRUE, FALSE, UNDEFINED, UNDEFINED, UNDEFINED),
   LoginResponse(FALSE, TRUE, "u-1", "Alice", UNDEFINED)}

EnvConfig(url, realm, clientId) == [url |-> url, realm |-> realm, clientId |-> clientId]

\* NEXT_PUBLIC_KEYCLOAK_URL, _REALM, _CLIENT_ID as the build inlined them.
EnvConfigs ==
  {EnvConfig("https://kc", "mem", "ui"),
   EnvConfig(UNDEFINED, "mem", "ui"),
   EnvConfig("https://kc", "", "ui"),
   EnvConfig("https://kc", "mem", UNDEFINED)}

ProtectedPages == {"/", "/settings"}
Routes == ProtectedPages \cup {"/login", "/auth/callback"}

VARIABLES
  sessionStorage,  \* window.sessionStorage: this tab's store
  localStorage,    \* window.localStorage: the durable store (the app's keys)
  oidcUser,        \* the OIDC client's user record, which it keeps in localStorage
  env,             \* the Keycloak environment variables
  idpUser,         \* the user the identity provider authenticates
  account,         \* the backend's answer to a login with the valid key
  userManager,     \* KeycloakService.userManager !== null
  route,           \* the route the router shows
  mounted,         \* the page of `route` has run its mount effect
  load,            \* what the last mount of a protected page did
  currentUser,     \* the mounted protected page's currentUser state
  pcCallback,      \* where AuthCallbackPage.handleCallback stands
  cbUser,          \* the user handleCallback holds across its awaits
  cbStatus,        \* AuthCallbackPage's status state
  pcCheck,         \* where LoginPage.checkKeycloakAuth stands
  checkUser,       \* the user checkKeycloakAuth holds across its awaits
  pcLogin,         \* where LoginPage.handleApiKeyLogin stands
  loginKey,        \* the apiKey the pending handleApiKeyLogin submitted
  loginUi,         \* LoginPage's error, success, loading and useKeycloak state
  alive,           \* the pending handlers whose page is still mounted
  timers,          \* the setTimeout callbacks not yet run
  sinceLogout,     \* history: logout ran and no handler has stored anything since
  ssoSession,      \* history: an SSO callback succeeded and no logout ran since
  variant,         \* which CreateMemoryDialog the page renders
  dlgOpen,         \* CreateMemoryDialog's open state
  isLoading,       \* useMemoriesApi's isLoading
  notification,    \* useMemoriesApi's notification
  hookError,       \* useMemoriesApi's error
  phase,           \* where the handling of one create-memory response stands
  todo,            \* the dialog's handlers the settled response has yet to run
  raw,             \* the response being handled
  out,             \* what the dialog has done for the response being handled
  lastCall,        \* the last call made on KeycloakService, and its outcome
  showCreateDialog,  \* MemoriesPage's showCreateDialog state
  newMemoryContent,  \* MemoriesPage's newMemoryContent state
  creating,          \* MemoriesPage's creating state
  createRequests,    \* the apiService.createMemory calls in flight
  ownRequests        \* those of them the mounted MemoriesPage started

storeVars == <<sessionStorage, localStorage, oidcUser>>
worldVars == <<env, idpUser, account>>
callbackVars == <<pcCallback, cbUser>>
checkVars == <<pcCheck, checkUser>>
loginVars == <<pcLogin, loginKey>>
historyVars == <<sinceLogout, ssoSession>>

sessionVars ==
  <<storeVars, worldVars, userManager, route, mounted, load, currentUser,
    callbackVars, cbStatus, checkVars, loginVars, loginUi, alive, timers,
    historyVars>>

dialogVars ==
  <<variant, dlgOpen, isLoading, notification, hookError, phase, todo, raw, out>>

createVars ==
  <<showCreateDialog, newMemoryContent, creating, createRequests, ownRequests>>

vars == <<sessionVars, dialogVars, lastCall, createVars>>

(***************************************************************************)
(* KeycloakService                                                         *)
(***************************************************************************)

\* An initialize() that looks at the URL only.
initializeUrlOnly(e) == Truthy(e.url)

\* initialize(): true iff url, realm and clientId are all set.
initialize(e) == Truthy(e.url) /\ Truthy(e.realm) /\ Truthy(e.clientId)

\* getUser(): null without a userManager, else the userStore's user.
getUser(um, stored) == IF um THEN stored ELSE NoUser

\* isAuthenticated(): user !== null && !user.expired
isAuthenticated(um, stored) ==
  LET user == getUser(um, stored) IN user.present /\ ~user.expired

\* getAccessToken(): user?.access_token || null
getAccessToken(um, stored) ==
  LET user == getUser(um, stored) IN
  IF user.present THEN Or(user.access_token, NULL) ELSE NULL

getUserId(user) == user.sub

\* A getUserName that prefers the name claim.
getUserNameNameFirst(user) == Or(user.name, Or(user.preferred_username, user.sub))

getUserName(user) == Or(user.preferred_username, Or(user.name, user.sub))

getUserEmail(user) == Or(user.email, "")

\* isConfigured(): this.userManager !== null
isConfigured(um) == um

\* login(), logout(), handleCallback(): throw 'Keycloak not initialized'
\* without a userManager, else call the OIDC client.
ServiceCall(um) == IF um THEN "called" ELSE "Keycloak not initialized"

(***************************************************************************)
(* Pages and the router                                                    *)
(***************************************************************************)

NoCurrentUser == [set |-> FALSE, userId |-> NULL, userName |-> NULL, apiKey |-> NULL]

NoLoad == [page |-> "none", redirected |-> FALSE, requests |-> {}]

\* No call has been made on KeycloakService yet.
NoCall == [op |-> "none", result |-> NULL, initialized |-> "never"]

LoginUiInit == [error |-> "", success |-> FALSE, loading |-> FALSE, useKeycloak |-> FALSE]

\* The page shown is unmounted: its state is gone, and the handlers it started
\* run on against an unmounted component.
Unmount ==
  /\ currentUser' = NoCurrentUser
  /\ loginUi' = LoginUiInit
  /\ cbStatus' = "loading"
  /\ alive' = {}

\* router.push(target): the target's page replaces the one shown, unless the
\* router already shows the target.
Push(target) ==
  IF route = target
  THEN UNCHANGED <<route, mounted, load, currentUser, loginUi, cbStatus, alive>>
  ELSE /\ route' = target
       /\ mounted' = FALSE
       /\ load' = NoLoad
       /\ Unmount

(***************************************************************************)
(* Protected pages: MemoriesPage ("/") and SettingsPage ("/settings")      *)
(***************************************************************************)

\* checkAuth with the two stores read in the other order.
CheckAuthReadDurableFirst(ss, ls) ==
  [apiKey |-> Or(getItem(ls, "api_key"), getItem(ss, "api_key")),
   userId |-> Or(getItem(ls, "user_id"), getItem(ss, "user_id")),
   userName |-> Or(getItem(ls, "user_name"), getItem(ss, "user_name"))]

\* A checkAuth that reads sessionStorage only.
CheckAuthReadSessionOnly(ss, ls) ==
  [apiKey |-> getItem(ss, "api_key"),
   userId |-> getItem(ss, "user_id"),
   userName |-> getItem(ss, "user_name")]

\* What checkAuth reads: each key from sessionStorage, else from localStorage.
CheckAuthRead(ss, ls) ==
  [apiKey |-> Or(getItem(ss, "api_key"), getItem(ls, "api_key")),
   userId |-> Or(getItem(ss, "user_id"), getItem(ls, "user_id")),
   userName |-> Or(getItem(ss, "user_name"), getItem(ls, "user_name"))]

\* checkAuth's `if (!apiKey) { router.push('/login'); return; }`
CheckAuthRedirects(ss, ls) == ~Truthy(CheckAuthRead(ss, ls).apiKey)

\* apiKey.substring(0, 10) + '...', for keys of at most ten characters.
MaskApiKey(k) == k \o "..."

\* The currentUser checkAuth sets: SettingsPage keeps the key, MemoriesPage masks it.
CheckAuthUser(page, ss, ls) ==
  LET r == CheckAuthRead(ss, ls) IN
  [set |-> TRUE, userId |-> r.userId, userName |-> r.userName,
   apiKey |-> IF page = "/" THEN MaskApiKey(r.apiKey) ELSE r.apiKey]

\* The requests a page's mount effect issues after checkAuth() has returned:
\* MemoriesPage calls fetchMemories() and fetchUsers(), SettingsPage nothing.
MountRequests(page, redirected) ==
  IF page = "/" THEN {"fetchMemories", "fetchUsers"} ELSE {}

\* A protected page mounts: useState(null), then the mount effect.
MountProtected(page) ==
  /\ page \in ProtectedPages
  /\ LET redirected == CheckAuthRedirects(sessionStorage, localStorage) IN
     /\ route' = IF redirected THEN "/login" ELSE page
     /\ mounted' = ~redirected
     /\ currentUser' = IF redirected THEN NoCurrentUser
                       ELSE CheckAuthUser(page, sessionStorage, localStorage)
     /\ load' = [page |-> page, redirected |-> redirected,
                 requests |-> MountRequests(page, redirected)]
  /\ loginUi' = LoginUiInit
  /\ cbStatus' = "loading"
  /\ alive' = {}
  /\ UNCHANGED <<storeVars, worldVars, userManager, callbackVars, checkVars,
                 loginVars, timers, historyVars>>
  /\ UNCHANGED <<dialogVars, lastCall, createVars>>

\* A logout that removes the credentials only.
ClearedCredentialsOnly(store) ==
  [store EXCEPT !["api_key"] = NULL, !["access_token"] = NULL, !["auth_type"] = NULL]

\* What handleLogout leaves of a store: sessionStorage.clear(), localStorage.clear().
ClearedStore(store) == EmptyStore

\* What localStorage.clear() leaves of the OIDC client's user record.
ClearedOidcUser(user) == NoUser

\* handleLogout, on either protected page.
Logout ==
  /\ route \in ProtectedPages
  /\ mounted
  /\ sessionStorage' = ClearedStore(sessionStorage)
  /\ localStorage' = ClearedStore(localStorage)
  /\ oidcUser' = ClearedOidcUser(oidcUser)
  /\ Push("/login")
  /\ sinceLogout' = TRUE
  /\ ssoSession' = FALSE
  /\ UNCHANGED <<worldVars, userManager, callbackVars, checkVars, loginVars,
                 timers>>
  /\ UNCHANGED <<dialogVars, lastCall, createVars>>

(***************************************************************************)
(* LoginPage                                                               *)
(***************************************************************************)

\* LoginPage mounts: initialize(), setUseKeycloak, and checkKeycloakAuth() up to
\* its first await.  One checkKeycloakAuth is modelled in flight at a time.
MountLogin ==
  /\ pcCheck = "idle"
  /\ LET keycloakConfigured == initialize(env) IN
     /\ userManager' = (userManager \/ keycloakConfigured)
     /\ loginUi' = [LoginUiInit EXCEPT !.useKeycloak = keycloakConfigured]
     /\ pcCheck' = IF keycloakConfigured THEN "isAuthenticated" ELSE "idle"
     /\ alive' = IF keycloakConfigured THEN {"check"} ELSE {}
  /\ route' = "/login"
  /\ mounted' = TRUE
  /\ load' = NoLoad
  /\ currentUser' = NoCurrentUser
  /\ cbStatus' = "loading"
  /\ UNCHANGED <<storeVars, worldVars, callbackVars, checkUser, loginVars,
                 timers, historyVars>>
  /\ UNCHANGED <<dialogVars, lastCall, createVars>>

\* checkKeycloakAuth resumes from `await keycloakService.isAuthenticated()`.
CheckIsAuthenticated ==
  /\ pcCheck = "isAuthenticated"
  /\ \E throws \in BOOLEAN :
       pcCheck' = IF ~throws /\ isAuthenticated(userManager, oidcUser)
                  THEN "getUser" ELSE "idle"
  /\ alive' = IF pcCheck' = "idle" THEN alive \ {"check"} ELSE alive
  /\ UNCHANGED <<storeVars, worldVars, userManager, route, mounted, load,
                 currentUser, callbackVars, cbStatus, checkUser, loginVars,
                 loginUi, timers, historyVars>>
  /\ UNCHANGED <<dialogVars, lastCall, createVars>>

\* checkKeycloakAuth resumes from `await keycloakService.getUser()`.
CheckGetUser ==
  /\ pcCheck = "getUser"
  /\ \E throws \in BOOLEAN :
       LET user == getUser(userManager, oidcUser) IN
       IF ~throws /\ user.present
       THEN pcCheck' = "getAccessToken" /\ checkUser' = user /\ alive' = alive
       ELSE pcCheck' = "idle" /\ checkUser' = NoUser /\ alive' = alive \ {"check"}
  /\ UNCHANGED <<storeVars, worldVars, userManager, route, mounted, load,
                 currentUser, callbackVars, cbStatus, loginVars, loginUi,
                 timers, historyVars>>
  /\ UNCHANGED <<dialogVars, lastCall, createVars>>

\* The four sessionStorage writes of checkKeycloakAuth.
CheckAuthWrites(ss, user, accessToken) ==
  LET s1 == setItem(ss, "user_id", getUserId(user))
      s2 == setItem(s1, "user_name", getUserName(user))
      s3 == setItem(s2, "access_token", Or(accessToken, ""))
  IN setItem(s3, "auth_type", "keycloak")

\* checkKeycloakAuth resumes from `await keycloakService.getAccessToken()`:
\* it stores the user in sessionStorage and pushes '/'.
CheckGetAccessToken ==
  /\ pcCheck = "getAccessToken"
  /\ \E throws \in BOOLEAN :
       IF throws
       THEN /\ alive' = alive \ {"check"}
            /\ UNCHANGED <<sessionStorage, route, mounted, load, currentUser,
                           loginUi, cbStatus, sinceLogout>>
       ELSE /\ sessionStorage' =
                 CheckAuthWrites(sessionStorage, checkUser,
                                 getAccessToken(userManager, oidcUser))
            /\ Push("/")
            /\ sinceLogout' = FALSE
  /\ pcCheck' = "idle"
  /\ checkUser' = NoUser
  /\ UNCHANGED <<localStorage, oidcUser, worldVars, userManager, callbackVars,
                 loginVars, timers, ssoSession>>
  /\ UNCHANGED <<dialogVars, lastCall, createVars>>

\* The "Use API Key instead" and "Use SSO Login instead" buttons.
ToggleUseKeycloak ==
  /\ route = "/login"
  /\ mounted
  /\ \/ loginUi.useKeycloak
     \/ Truthy(env.url)
  /\ ~loginUi.loading
  /\ loginUi' = [loginUi EXCEPT !.useKeycloak = ~loginUi.useKeycloak]
  /\ UNCHANGED <<storeVars, worldVars, userManager, route, mounted, load,
                 currentUser, callbackVars, cbStatus, checkVars, loginVars,
                 alive, timers, historyVars>>
  /\ UNCHANGED <<dialogVars, lastCall, createVars>>

\* handleApiKeyLogin up to `await fetch(...)`.  The submit button is disabled
\* while loading or after success; one request is modelled in flight at a time.
SubmitApiKey(apiKey) ==
  /\ route = "/login"
  /\ mounted
  /\ ~loginUi.useKeycloak
  /\ ~loginUi.loading
  /\ ~loginUi.success
  /\ pcLogin = "idle"
  /\ pcLogin' = "fetch"
  /\ loginKey' = apiKey
  /\ loginUi' = [loginUi EXCEPT !.error = "", !.success = FALSE, !.loading = TRUE]
  /\ alive' = alive \cup {"login"}
  /\ UNCHANGED <<storeVars, worldVars, userManager, route, mounted, load,
                 currentUser, callbackVars, cbStatus, checkVars, timers,
                 historyVars>>
  /\ UNCHANGED <<dialogVars, lastCall, createVars>>

\* The four sessionStorage writes of handleApiKeyLogin.
ApiKeyLoginSessionWrites(ss, apiKey, data) ==
  LET s1 == setItem(ss, "api_key", apiKey)
      s2 == setItem(s1, "user_id", data.user_id)
      s3 == setItem(s2, "user_name", Or(data.name, data.user_id))
  IN setItem(s3, "auth_type", "api_key")

\* A handleApiKeyLogin that leaves the durable store as it is.
ApiKeyLoginNoLocalWrites(ls, apiKey, data) == ls

\* The three localStorage writes of handleApiKeyLogin.
ApiKeyLoginLocalWrites(ls, apiKey, data) ==
  LET s1 == setItem(ls, "api_key", apiKey)
      s2 == setItem(s1, "user_id", data.user_id)
  IN setItem(s2, "user_name", Or(data.name, data.user_id))

\* setState of an unmounted LoginPage changes nothing.
LoginSetState(new) == IF "login" \in alive THEN new ELSE loginUi

\* A handleApiKeyLogin that stores the session whenever the body says
\* success, whatever the HTTP status.
LoginRespondsOnSuccessFlag(response) ==
  /\ pcLogin = "fetch"
  /\ IF response.success
     THEN /\ sessionStorage' = ApiKeyLoginSessionWrites(sessionStorage, loginKey, response)
          /\ localStorage' = ApiKeyLoginLocalWrites(localStorage, loginKey, response)
          /\ loginUi' = LoginSetState(
                 [loginUi EXCEPT !.success = TRUE, !.error = "", !.loading = FALSE])
          /\ timers' = timers \cup {"login_success"}
          /\ sinceLogout' = FALSE
     ELSE /\ loginUi' = LoginSetState(
                 [loginUi EXCEPT !.error = Or(response.detail, "Invalid API key"),
                                 !.loading = FALSE])
          /\ UNCHANGED <<sessionStorage, localStorage, timers, sinceLogout>>
  /\ pcLogin' = "idle"
  /\ loginKey' = NULL
  /\ alive' = alive \ {"login"}
  /\ UNCHANGED <<oidcUser, worldVars, userManager, route, mounted, load,
                 currentUser, callbackVars, cbStatus, checkVars, ssoSession>>
  /\ UNCHANGED <<dialogVars, lastCall, createVars>>

\* handleApiKeyLogin resumes with the response and its JSON body.
LoginResponds(response) ==
  /\ pcLogin = "fetch"
  /\ IF response.ok /\ response.success
     THEN /\ sessionStorage' = ApiKeyLoginSessionWrites(sessionStorage, loginKey, response)
          /\ localStorage' = ApiKeyLoginLocalWrites(localStorage, loginKey, response)
          /\ loginUi' = LoginSetState(
                 [loginUi EXCEPT !.success = TRUE, !.error = "", !.loading = FALSE])
          /\ timers' = timers \cup {"login_success"}
          /\ sinceLogout' = FALSE
     ELSE /\ loginUi' = LoginSetState(
                 [loginUi EXCEPT !.error = Or(response.detail, "Invalid API key"),
                                 !.loading = FALSE])
          /\ UNCHANGED <<sessionStorage, localStorage, timers, sinceLogout>>
  /\ pcLogin' = "idle"
  /\ loginKey' = NULL
  /\ alive' = alive \ {"login"}
  /\ UNCHANGED <<oidcUser, worldVars, userManager, route, mounted, load,
                 currentUser, callbackVars, cbStatus, checkVars, ssoSession>>
  /\ UNCHANGED <<dialogVars, lastCall, createVars>>

\* fetch or response.json() rejects: the catch block, then finally.
LoginFails ==
  /\ pcLogin = "fetch"
  /\ loginUi' = LoginSetState(
         [loginUi EXCEPT
            !.error = "Failed to connect to server. Please check your connection.",
            !.loading = FALSE])
  /\ pcLogin' = "idle"
  /\ loginKey' = NULL
  /\ alive' = alive \ {"login"}
  /\ UNCHANGED <<storeVars, worldVars, userManager, route, mounted, load,
                 currentUser, callbackVars, cbStatus, checkVars, timers,
                 historyVars>>
  /\ UNCHANGED <<dialogVars, lastCall, createVars>>

(***************************************************************************)
(* AuthCallbackPage                                                        *)
(***************************************************************************)

\* AuthCallbackPage mounts: handleCallback up to `await handleCallback()`, or
\* its catch block when Keycloak is not configured.  One handleCallback is
\* modelled in flight at a time.
MountCallback ==
  /\ pcCallback = "idle"
  /\ route' = "/auth/callback"
  /\ mounted' = TRUE
  /\ load' = NoLoad
  /\ currentUser' = NoCurrentUser
  /\ loginUi' = LoginUiInit
  /\ IF initialize(env)
     THEN /\ userManager' = TRUE
          /\ pcCallback' = "signinRedirectCallback"
          /\ cbStatus' = "loading"
          /\ alive' = {"callback"}
          /\ UNCHANGED timers
     ELSE /\ cbStatus' = "error"
          /\ timers' = timers \cup {"callback_error"}
          /\ alive' = {}
          /\ UNCHANGED <<userManager, pcCallback>>
  /\ UNCHANGED <<storeVars, worldVars, cbUser, checkVars, loginVars, historyVars>>
  /\ UNCHANGED <<dialogVars, lastCall, createVars>>

\* setStatus of an unmounted AuthCallbackPage changes nothing.
CallbackSetStatus(status) == IF "callback" \in alive THEN status ELSE cbStatus

\* handleCallback's catch block.
CallbackCatch ==
  /\ cbStatus' = CallbackSetStatus("error")
  /\ timers' = timers \cup {"callback_error"}
  /\ pcCallback' = "idle"
  /\ cbUser' = NoUser
  /\ alive' = alive \ {"callback"}

\* signinRedirectCallback settles: it rejects, or resolves with no user, or
\* stores the user in the userStore and resolves with it.
CallbackSettles ==
  /\ pcCallback = "signinRedirectCallback"
  /\ \/ /\ CallbackCatch
        /\ UNCHANGED oidcUser
     \/ /\ oidcUser' = idpUser
        /\ cbUser' = idpUser
        /\ pcCallback' = "getAccessToken"
        /\ UNCHANGED <<cbStatus, timers, alive>>
  /\ sinceLogout' = (sinceLogout /\ ~oidcUser'.present)
  /\ UNCHANGED <<sessionStorage, localStorage, worldVars, userManager, route,
                 mounted, load, currentUser, checkVars, loginVars, loginUi,
                 ssoSession>>
  /\ UNCHANGED <<dialogVars, lastCall, createVars>>

\* The five sessionStorage writes of handleCallback.
CallbackSessionWrites(ss, user, accessToken) ==
  LET s1 == setItem(ss, "user_id", getUserId(user))
      s2 == setItem(s1, "user_name", getUserName(user))
      s3 == setItem(s2, "user_email", getUserEmail(user))
      s4 == setItem(s3, "access_token", Or(accessToken, ""))
  IN setItem(s4, "auth_type", "keycloak")

\* A handleCallback that leaves the durable store as it is.
CallbackNoLocalWrites(ls, user) == ls

\* The four localStorage writes of handleCallback.
CallbackLocalWrites(ls, user) ==
  LET s1 == setItem(ls, "user_id", getUserId(user))
      s2 == setItem(s1, "user_name", getUserName(user))
      s3 == setItem(s2, "user_email", getUserEmail(user))
  IN setItem(s3, "auth_type", "keycloak")

\* handleCallback from the token on: the writes to the two stores,
\* setStatus('success'), and the setTimeout of the redirect to '/'.
CallbackStores ==
  /\ sessionStorage' =
       CallbackSessionWrites(sessionStorage, cbUser,
                             getAccessToken(userManager, oidcUser))
  /\ localStorage' = CallbackLocalWrites(localStorage, cbUser)
  /\ cbStatus' = CallbackSetStatus("success")
  /\ timers' = timers \cup {"callback_success"}
  /\ pcCallback' = "idle"
  /\ cbUser' = NoUser
  /\ alive' = alive \ {"callback"}
  /\ sinceLogout' = FALSE
  /\ ssoSession' = TRUE

\* handleCallback resumes from `await keycloakService.getAccessToken()`: the
\* accessor has rejected (the catch block), or has resolved.
CallbackGetAccessToken ==
  /\ pcCallback = "getAccessToken"
  /\ \/ /\ CallbackCatch
        /\ UNCHANGED <<sessionStorage, localStorage, historyVars>>
     \/ CallbackStores
  /\ UNCHANGED <<oidcUser, worldVars, userManager, route, mounted, load,
                 currentUser, checkVars, loginVars, loginUi>>
  /\ UNCHANGED <<dialogVars, lastCall, createVars>>

(***************************************************************************)
(* Timers, and the browser                                                 *)
(***************************************************************************)

\* Timers that all push the dashboard.
TimerTargetDashboard(t) == "/"

\* Where each setTimeout callback pushes the router.
TimerTarget(t) == IF t = "callback_error" THEN "/login" ELSE "/"

\* A setTimeout callback runs: router.push(target).
TimerFires(t) ==
  /\ t \in timers
  /\ timers' = timers \ {t}
  /\ Push(TimerTarget(t))
  /\ UNCHANGED <<storeVars, worldVars, userManager, callbackVars, checkVars,
                 loginVars, historyVars>>
  /\ UNCHANGED <<dialogVars, lastCall, createVars>>

\* The stored OIDC user's token expires.
UserExpires ==
  /\ oidcUser.present
  /\ ~oidcUser.expired
  /\ oidcUser' = [oidcUser EXCEPT !.expired = TRUE]
  /\ UNCHANGED <<sessionStorage, localStorage, worldVars, userManager, route,
                 mounted, load, currentUser, callbackVars, cbStatus, checkVars,
                 loginVars, loginUi, alive, timers, historyVars>>
  /\ UNCHANGED <<dialogVars, lastCall, createVars>>

\* The document is loaded anew (a reload, or the return from the identity
\* provider): the script's state is gone, the stores stay.  A new tab starts
\* with an empty sessionStorage.
PageLoad(newTab) ==
  /\ sessionStorage' = IF newTab THEN EmptyStore ELSE sessionStorage
  /\ userManager' = FALSE
  /\ \E r \in Routes : route' = r
  /\ mounted' = FALSE
  /\ load' = NoLoad
  /\ Unmount
  /\ pcCallback' = "idle"
  /\ cbUser' = NoUser
  /\ pcCheck' = "idle"
  /\ checkUser' = NoUser
  /\ pcLogin' = "idle"
  /\ loginKey' = NULL
  /\ timers' = {}
  /\ ssoSession' = (ssoSession /\ ~newTab)
  /\ UNCHANGED <<localStorage, oidcUser, worldVars, sinceLogout>>
  /\ UNCHANGED <<dialogVars, lastCall, createVars>>

SessionInit ==
  /\ sessionStorage = EmptyStore
  /\ localStorage = EmptyStore
  /\ oidcUser = NoUser
  /\ env \in EnvConfigs
  /\ \E w \in Worlds : idpUser = IdpUsers[w[1]] /\ account = Accounts[w[2]]
  /\ userManager = FALSE
  /\ route \in Routes
  /\ mounted = FALSE
  /\ load = NoLoad
  /\ currentUser = NoCurrentUser
  /\ pcCallback = "idle"
  /\ cbUser = NoUser
  /\ cbStatus = "loading"
  /\ pcCheck = "idle"
  /\ checkUser = NoUser
  /\ pcLogin = "idle"
  /\ loginKey = NULL
  /\ loginUi = LoginUiInit
  /\ alive = {}
  /\ timers = {}
  /\ sinceLogout = FALSE
  /\ ssoSession = FALSE
  /\ lastCall = NoCall

SessionNext ==
  \/ \E page \in ProtectedPages : MountProtected(page)
  \/ Logout
  \/ MountLogin
  \/ CheckIsAuthenticated
  \/ CheckGetUser
  \/ CheckGetAccessToken
  \/ ToggleUseKeycloak
  \/ \E apiKey \in ApiKeys : SubmitApiKey(apiKey)
  \/ \E response \in {account} \cup Rejections : LoginResponds(response)
  \/ LoginFails
  \/ MountCallback
  \/ CallbackSettles
  \/ CallbackGetAccessToken
  \/ \E t \in timers : TimerFires(t)
  \/ UserExpires
  \/ \E newTab \in BOOLEAN : PageLoad(newTab)

(***************************************************************************)
(* JSON texts.  The strings the model knows are the serialisations of a    *)
(* small universe of JSON values, and a few strings that are not JSON;     *)
(* JSON.parse finds the value a string serialises, or throws.              *)
(***************************************************************************)

NotificationTypes == {"success", "info", "warning", "error"}

\* The notification objects: `type` and `message` each hold a string or are
\* missing (UNDEFINED).
JsonObjects ==
  [type : NotificationTypes \cup {"bogus", UNDEFINED},
   message : {"Duplicate", "", UNDEFINED}]

\* "key":"value", or nothing when the object has no such key.
JsonMember(key, v) ==
  IF v = UNDEFINED THEN "" ELSE "\"" \o key \o "\":\"" \o v \o "\""

\* JSON.stringify of a notification object.
JSONStringify(obj) ==
  "{" \o JsonMember("type", obj.type)
      \o (IF obj.type # UNDEFINED /\ obj.message # UNDEFINED THEN "," ELSE "")
      \o JsonMember("message", obj.message) \o "}"

\* String(obj), as JSON.parse applies it to an argument that is an object.
ObjectString == "[object Object]"

\* The strings a response may carry.
Texts ==
  {JSONStringify(obj) : obj \in JsonObjects}
    \cup {"null", "42", "Memory created", ""}

SyntaxError == [ok |-> FALSE, isNull |-> FALSE, type |-> UNDEFINED, message |-> UNDEFINED]

\* JSON.parse(text): ok is FALSE for a SyntaxError; isNull for the value null;
\* else the value's `type` and `message` properties (UNDEFINED when it has none,
\* as for a number).
JSONParse(text) ==
  IF \E obj \in JsonObjects : JSONStringify(obj) = text
  THEN LET obj == CHOOSE o \in JsonObjects : JSONStringify(o) = text IN
       [ok |-> TRUE, isNull |-> FALSE, type |-> obj.type, message |-> obj.message]
  ELSE IF text = "null"
  THEN [ok |-> TRUE, isNull |-> TRUE, type |-> UNDEFINED, message |-> UNDEFINED]
  ELSE IF text = "42"
  THEN [ok |-> TRUE, isNull |-> FALSE, type |-> UNDEFINED, message |-> UNDEFINED]
  ELSE SyntaxError

(***************************************************************************)
(* The responses of createMemory.                                          *)
(***************************************************************************)

RawNone ==
  [kind |-> "none", text |-> UNDEFINED, type |-> UNDEFINED,
   message |-> UNDEFINED, detail |-> UNDEFINED, setsError |-> FALSE]

\* The hook sets `notification` to a string.
RawText(text) == [RawNone EXCEPT !.kind = "text", !.text = text]

\* The hook sets `notification` to an object.
RawStructured(obj) ==
  [RawNone EXCEPT !.kind = "structured", !.type = obj.type, !.message = obj.message]

\* createMemory throws an error with this message (and, for a rejected
\* request, response.data.detail); the hook may set its `error` state too.
RawFailure(message, detail, setsError) ==
  [RawNone EXCEPT !.kind = "failure", !.message = message, !.detail = detail,
                  !.setsError = setsError]

RawResponses ==
  {RawText(t) : t \in Texts}
    \cup {RawStructured(obj) : obj \in JsonObjects}
    \cup {RawFailure(t, d, e) : t \in Texts, d \in {UNDEFINED, "Bad request"},
                                e \in BOOLEAN}

\* The three CreateMemoryDialog components of the repository: the one of
\* ui/app/memories/components, and the two whose file names are unknown.
Variants == {"ui", "part_001", "part_002"}

(***************************************************************************)
(* What a handler of the dialog does: the toasts it shows, whether it      *)
(* calls setOpen(false), how often it calls fetchMemories(), the alerts.   *)
(***************************************************************************)

Toast(kind, message) == [kind |-> kind, message |-> message]

Fx(toasts, close, refresh) ==
  [toasts |-> toasts, closed |-> close, refreshed |-> refresh, alerts |-> <<>>]

NoFx == Fx(<<>>, FALSE, 0)

\* The switch on notificationObj.type of the notification effect.
NotificationSwitch(type, message) ==
  CASE type = "success" -> Fx(<<Toast("success", message)>>, TRUE, 1)
    [] type = "warning" -> Fx(<<Toast("warning", message)>>, FALSE, 0)
    [] type = "error" -> Fx(<<Toast("error", message)>>, FALSE, 0)
    [] type = "info" -> Fx(<<Toast("neutral", message)>>, TRUE, 1)
    [] OTHER -> Fx(<<Toast("success", message)>>, TRUE, 1)

\* `if (notification)`
NotificationSet(n) ==
  \/ n.kind = "structured"
  \/ n.kind = "text" /\ Truthy(n.text)

\* The notification effect of ui/app/memories/components/CreateMemoryDialog.tsx:
\* JSON.parse(notification), the switch, and the catch of whatever they throw.
UiNotificationEffect(n) ==
  IF ~NotificationSet(n) THEN NoFx
  ELSE LET str == IF n.kind = "text" THEN n.text ELSE ObjectString
           notificationObj == JSONParse(str)
       IN IF ~notificationObj.ok \/ notificationObj.isNull
          THEN Fx(<<Toast("success", str)>>, TRUE, 1)
          ELSE NotificationSwitch(notificationObj.type, notificationObj.message)

\* The notification effect of the CreateMemoryDialog of part_002: a string is
\* parsed, an object is taken as it is, and the switch runs only for a value
\* with a type and a message.
Part002NotificationEffect(n) ==
  IF ~NotificationSet(n) THEN NoFx
  ELSE LET notificationObj ==
             IF n.kind = "text" THEN JSONParse(n.text)
             ELSE [ok |-> TRUE, isNull |-> FALSE, type |-> n.type, message |-> n.message]
       IN IF ~notificationObj.ok
          THEN Fx(<<Toast("success",
                          IF n.kind = "text" THEN n.text
                          ELSE "Memory created successfully")>>, TRUE, 1)
          ELSE IF /\ ~notificationObj.isNull
                  /\ Truthy(notificationObj.type)
                  /\ Truthy(notificationObj.message)
          THEN NotificationSwitch(notificationObj.type, notificationObj.message)
          ELSE NoFx

\* The error effect of ui/.../CreateMemoryDialog.tsx: `if (error) toast.error(error)`.
UiErrorEffect(error) ==
  IF Truthy(error) THEN Fx(<<Toast("error", error)>>, FALSE, 0) ELSE NoFx

\* A catch block whose fallback reports a success, closes and refreshes.
UiCatchDegradesToSuccess(err) ==
  Fx(<<Toast("success", Or(err.message, "Memory created successfully"))>>, TRUE, 1)

\* The fallback of the catch block of ui/.../CreateMemoryDialog.tsx.
UiCatchFallback(err) ==
  Fx(<<Toast("error", Or(err.detail, Or(err.message, "Failed to create memory")))>>,
     FALSE, 0)

\* The catch block of handleCreateMemory in ui/.../CreateMemoryDialog.tsx.
UiCatch(err) ==
  LET n == JSONParse(err.message) IN
  IF n.ok /\ ~n.isNull /\ Truthy(n.type) /\ Truthy(n.message)
  THEN CASE n.type = "success" -> Fx(<<Toast("success", n.message)>>, TRUE, 1)
         [] n.type = "info" -> Fx(<<Toast("neutral", n.message)>>, TRUE, 1)
         [] n.type = "warning" -> Fx(<<Toast("warning", n.message)>>, FALSE, 0)
         [] OTHER -> Fx(<<Toast("error", n.message)>>, FALSE, 0)
  ELSE UiCatchFallback(err)

\* The catch block of handleCreateMemory in part_001: window.alert.
Part001Catch(err) ==
  [NoFx EXCEPT !.alerts = <<Or(err.message, "Failed to create memory")>>]

\* The handlers a variant runs once createMemory has settled with response r.
\* part_002's handleCreateMemory has no catch: the rejection goes unhandled.
HandlersFor(v, r) ==
  (IF v \in {"ui", "part_002"} /\ r.kind \in {"text", "structured"}
   THEN {"notificationEffect"} ELSE {})
  \cup (IF v = "ui" /\ r.kind = "failure" /\ r.setsError THEN {"errorEffect"} ELSE {})
  \cup (IF v \in {"ui", "part_001"} /\ r.kind = "failure" THEN {"catch"} ELSE {})

\* What handler h of variant v does.
HandlerFx(v, h, n, error, r) ==
  CASE h = "notificationEffect" ->
         IF v = "ui" THEN UiNotificationEffect(n) ELSE Part002NotificationEffect(n)
    [] h = "errorEffect" -> UiErrorEffect(error)
    [] h = "catch" -> IF v = "ui" THEN UiCatch(r) ELSE Part001Catch(r)

\* What the dialog has done, with what a handler does added.
AddFx(o, fx) ==
  [toasts |-> o.toasts \o fx.toasts,
   closed |-> (o.closed \/ fx.closed),
   refreshed |-> o.refreshed + fx.refreshed,
   alerts |-> o.alerts \o fx.alerts]

(***************************************************************************)
(* useMemoriesApi, as far as the dialog depends on it.                     *)
(***************************************************************************)

\* Whether a string or object carries a notification of a known type with a
\* non-empty message, and then that type; "unparseable" otherwise.
ResolvedType(r) ==
  LET n == IF r.kind = "structured"
           THEN [ok |-> TRUE, isNull |-> FALSE, type |-> r.type, message |-> r.message]
           ELSE JSONParse(IF r.kind = "text" THEN r.text ELSE r.message)
  IN IF n.ok /\ ~n.isNull /\ n.type \in NotificationTypes /\ Truthy(n.message)
     THEN n.type ELSE "unparseable"

\* createMemory(text, onSuccess) may call onSuccess only for a response that
\* is not a failure, a warning or an error ("Dialog closes only on success via
\* callback"); the dialog of ui/ passes no callback.
HookMayCallOnSuccess(v, r) ==
  /\ v \in {"part_001", "part_002"}
  /\ r.kind \in {"text", "structured"}
  /\ ResolvedType(r) \notin {"warning", "error"}

\* The `notification` state the hook sets for a response.
HookNotification(r) == IF r.kind \in {"text", "structured"} THEN r ELSE RawNone

\* The `error` state the hook sets for a response.
HookError(r) == IF r.kind = "failure" /\ r.setsError THEN r.message ELSE NULL

(***************************************************************************)
(* The create-memory dialog                                                *)
(***************************************************************************)

\* The user opens the dialog (DialogTrigger).
OpenDialog ==
  /\ phase = "idle"
  /\ ~dlgOpen
  /\ dlgOpen' = TRUE
  /\ UNCHANGED <<variant, isLoading, notification, hookError, phase, todo, raw, out>>
  /\ UNCHANGED <<sessionVars, lastCall, createVars>>

\* The user clicks Cancel.
CancelDialog ==
  /\ phase = "idle"
  /\ dlgOpen
  /\ dlgOpen' = FALSE
  /\ UNCHANGED <<variant, isLoading, notification, hookError, phase, todo, raw, out>>
  /\ UNCHANGED <<sessionVars, lastCall, createVars>>

\* "Save Memory" (disabled while isLoading): handleCreateMemory up to
\* `await createMemory(...)`.
SaveMemory ==
  /\ phase = "idle"
  /\ dlgOpen
  /\ ~isLoading
  /\ isLoading' = TRUE
  /\ notification' = RawNone
  /\ hookError' = NULL
  /\ phase' = "pending"
  /\ raw' = RawNone
  /\ out' = NoFx
  /\ UNCHANGED <<variant, dlgOpen, todo>>
  /\ UNCHANGED <<sessionVars, lastCall, createVars>>

\* createMemory settles with response r: the hook sets its state and, when
\* `called`, calls onSuccess, which is `() => setOpen(false)`.
CreateMemorySettles(r, called) ==
  /\ phase = "pending"
  /\ called => HookMayCallOnSuccess(variant, r)
  /\ raw' = r
  /\ isLoading' = FALSE
  /\ notification' = HookNotification(r)
  /\ hookError' = HookError(r)
  /\ todo' = HandlersFor(variant, r)
  /\ out' = [out EXCEPT !.closed = called]
  /\ dlgOpen' = (dlgOpen /\ ~called)
  /\ phase' = "settled"
  /\ UNCHANGED variant
  /\ UNCHANGED <<sessionVars, lastCall, createVars>>

\* One of the dialog's handlers runs.
RunHandler(h) ==
  /\ phase = "settled"
  /\ h \in todo
  /\ LET fx == HandlerFx(variant, h, notification, hookError, raw) IN
     /\ out' = AddFx(out, fx)
     /\ dlgOpen' = (dlgOpen /\ ~fx.closed)
  /\ todo' = todo \ {h}
  /\ UNCHANGED <<variant, isLoading, notification, hookError, phase, raw>>
  /\ UNCHANGED <<sessionVars, lastCall, createVars>>

\* The response has been handled; the dialog waits for the next click.
Handled == phase = "settled" /\ todo = {}

NextResponse ==
  /\ Handled
  /\ phase' = "idle"
  /\ UNCHANGED <<variant, dlgOpen, isLoading, notification, hookError, todo, raw, out>>
  /\ UNCHANGED <<sessionVars, lastCall, createVars>>

DialogInit ==
  /\ variant \in Variants
  /\ dlgOpen = FALSE
  /\ isLoading = FALSE
  /\ notification = RawNone
  /\ hookError = NULL
  /\ phase = "idle"
  /\ todo = {}
  /\ raw = RawNone
  /\ out = NoFx

DialogNext ==
  \/ OpenDialog
  \/ CancelDialog
  \/ SaveMemory
  \/ \E r \in RawResponses, called \in BOOLEAN : CreateMemorySettles(r, called)
  \/ \E h \in todo : RunHandler(h)
  \/ NextResponse

(***************************************************************************)
(* MemoriesPage's own create dialog                                        *)
(***************************************************************************)

\* MemoriesPage as it mounts: useState(false), useState(''), useState(false);
\* no request in flight.
CreateInit ==
  /\ showCreateDialog = FALSE
  /\ newMemoryContent = ""
  /\ creating = FALSE
  /\ createRequests = 0
  /\ ownRequests = 0

\* What the user may have typed into the textarea.
MemoryContents == {"", " ", "note"}

\* newMemoryContent.trim()
Trim(content) == IF content = " " THEN "" ELSE content

\* The bound on the createMemory calls in flight at once.
MaxRequests == 2

\* A Create button that is disabled for an empty textarea only.
CreateDisabledEmptyOnly(content, busy) == ~Truthy(Trim(content))

\* The Create button's `disabled={!newMemoryContent.trim() || creating}`.
CreateDisabled(content, busy) == ~Truthy(Trim(content)) \/ busy

\* The "New Memory" button: setShowCreateDialog(true).
ShowCreateDialog ==
  /\ ~showCreateDialog
  /\ showCreateDialog' = TRUE
  /\ UNCHANGED <<newMemoryContent, creating, createRequests, ownRequests>>
  /\ UNCHANGED <<sessionVars, dialogVars, lastCall>>

\* The textarea's onChange: setNewMemoryContent(e.target.value).
TypeMemory(content) ==
  /\ showCreateDialog
  /\ newMemoryContent' = content
  /\ UNCHANGED <<showCreateDialog, creating, createRequests, ownRequests>>
  /\ UNCHANGED <<sessionVars, dialogVars, lastCall>>

\* The dialog's Cancel button.
CancelCreate ==
  /\ showCreateDialog
  /\ showCreateDialog' = FALSE
  /\ newMemoryContent' = ""
  /\ UNCHANGED <<creating, createRequests, ownRequests>>
  /\ UNCHANGED <<sessionVars, dialogVars, lastCall>>

\* A click on the Create button, when it is not disabled: handleCreateMemory
\* up to `await apiService.createMemory(...)`.
ClickCreate ==
  /\ showCreateDialog
  /\ ~CreateDisabled(newMemoryContent, creating)
  /\ createRequests < MaxRequests
  /\ Truthy(Trim(newMemoryContent))
  /\ creating' = TRUE
  /\ createRequests' = createRequests + 1
  /\ ownRequests' = ownRequests + 1
  /\ UNCHANGED <<showCreateDialog, newMemoryContent>>
  /\ UNCHANGED <<sessionVars, dialogVars, lastCall>>

\* A request of the mounted page settles: the rest of the try block or the
\* catch block, then finally.
CreateSettles(ok) ==
  /\ ownRequests > 0
  /\ newMemoryContent' = IF ok THEN "" ELSE newMemoryContent
  /\ showCreateDialog' = (showCreateDialog /\ ~ok)
  /\ creating' = FALSE
  /\ createRequests' = createRequests - 1
  /\ ownRequests' = ownRequests - 1
  /\ UNCHANGED <<sessionVars, dialogVars, lastCall>>

\* A request settles whose page is no longer mounted: its setState calls
\* change nothing.
StaleCreateSettles ==
  /\ createRequests > ownRequests
  /\ createRequests' = createRequests - 1
  /\ UNCHANGED <<showCreateDialog, newMemoryContent, creating, ownRequests>>
  /\ UNCHANGED <<sessionVars, dialogVars, lastCall>>

\* The user leaves MemoriesPage and comes back: the page mounts anew with
\* its initial state; what the old page awaited stays in flight.
RemountMemoriesPage ==
  /\ showCreateDialog' = FALSE
  /\ newMemoryContent' = ""
  /\ creating' = FALSE
  /\ ownRequests' = 0
  /\ UNCHANGED createRequests
  /\ UNCHANGED <<sessionVars, dialogVars, lastCall>>

CreateNext ==
  \/ ShowCreateDialog
  \/ \E content \in MemoryContents : TypeMemory(content)
  \/ CancelCreate
  \/ ClickCreate
  \/ \E ok \in BOOLEAN : CreateSettles(ok)
  \/ StaleCreateSettles
  \/ RemountMemoriesPage

(***************************************************************************)
(* The specifications: the session bootstrap with the dialog closed, and   *)
(* the dialog on a page whose session does not change.                     *)
(***************************************************************************)

Init == SessionInit /\ DialogInit /\ variant = "ui" /\ CreateInit

Next == SessionNext

Spec == Init /\ [][Next]_vars

DialogSpecInit ==
  /\ SessionInit
  /\ env = EnvConfig("https://kc", "mem", "ui")
  /\ idpUser = IdpUsers[1]
  /\ account = Accounts[1]
  /\ route = "/"
  /\ DialogInit
  /\ CreateInit

DialogSpec == DialogSpecInit /\ [][DialogNext]_vars

(***************************************************************************)
(* Logins cut short between the two stores: Storage.setItem throws when    *)
(* the store is full or disabled, and the first localStorage write of a    *)
(* login then ends the handler's try block.                                *)
(***************************************************************************)

\* handleApiKeyLogin, accepted, with localStorage.setItem throwing: the four
\* sessionStorage writes, then the catch block and finally.
ApiKeyLoginInterrupted ==
  /\ pcLogin = "fetch"
  /\ account.ok /\ account.success
  /\ sessionStorage' = ApiKeyLoginSessionWrites(sessionStorage, loginKey, account)
  /\ loginUi' = LoginSetState(
         [loginUi EXCEPT
            !.error = "Failed to connect to server. Please check your connection.",
            !.loading = FALSE])
  /\ pcLogin' = "idle"
  /\ loginKey' = NULL
  /\ alive' = alive \ {"login"}
  /\ sinceLogout' = FALSE
  /\ UNCHANGED <<localStorage, oidcUser, worldVars, userManager, route, mounted,
                 load, currentUser, callbackVars, cbStatus, checkVars, timers,
                 ssoSession>>
  /\ UNCHANGED <<dialogVars, lastCall, createVars>>

\* handleCallback with localStorage.setItem throwing: the five sessionStorage
\* writes, then the catch block.
CallbackInterrupted ==
  /\ pcCallback = "getAccessToken"
  /\ sessionStorage' =
       CallbackSessionWrites(sessionStorage, cbUser,
                             getAccessToken(userManager, oidcUser))
  /\ CallbackCatch
  /\ sinceLogout' = FALSE
  /\ UNCHANGED <<localStorage, oidcUser, worldVars, userManager, route, mounted,
                 load, currentUser, checkVars, loginVars, loginUi, ssoSession>>
  /\ UNCHANGED <<dialogVars, lastCall, createVars>>

InterruptNext ==
  \/ SessionNext
  \/ ApiKeyLoginInterrupted
  \/ CallbackInterrupted

\* One person at the browser, SSO configured, the login page requested.
InterruptSpecInit ==
  /\ Init
  /\ env = EnvConfig("https://kc", "mem", "ui")
  /\ idpUser = IdpUsers[1]
  /\ account = Accounts[1]
  /\ route = "/login"

InterruptSpec == InterruptSpecInit /\ [][InterruptNext]_vars

(***************************************************************************)
(* KeycloakService on its own: its methods called in any order, with the   *)
(* environment read anew by each initialize().                             *)
(***************************************************************************)

\* The environments initialize() may find.
ServiceConfigs ==
  [url : {UNDEFINED, "", "https://kc"}, realm : {UNDEFINED, "mem"},
   clientId : {UNDEFINED, "ui"}]

\* What the service's methods leave alone.
serviceFrame ==
  <<storeVars, idpUser, account, route, mounted, load, currentUser,
    callbackVars, cbStatus, checkVars, loginVars, loginUi, alive, timers,
    historyVars, dialogVars, createVars>>

BoolString(b) == IF b THEN "true" ELSE "false"

\* initialize() under environment e: a complete configuration sets
\* userManager, an incomplete one returns false and sets nothing.
ServiceInitialize(e) ==
  /\ env' = e
  /\ userManager' = (userManager \/ initialize(e))
  /\ lastCall' = [op |-> "initialize", result |-> BoolString(initialize(e)),
                  initialized |-> BoolString(initialize(e))]
  /\ UNCHANGED serviceFrame

\* isConfigured()
ServiceIsConfigured ==
  /\ lastCall' = [lastCall EXCEPT !.op = "isConfigured",
                                  !.result = BoolString(isConfigured(userManager))]
  /\ UNCHANGED <<env, userManager, serviceFrame>>

\* login(), logout() or handleCallback()
ServiceMethod(op) ==
  /\ lastCall' = [lastCall EXCEPT !.op = op, !.result = ServiceCall(userManager)]
  /\ UNCHANGED <<env, userManager, serviceFrame>>

ServiceNext ==
  \/ \E e \in ServiceConfigs : ServiceInitialize(e)
  \/ ServiceIsConfigured
  \/ \E op \in {"login", "logout", "handleCallback"} : ServiceMethod(op)

ServiceSpecInit ==
  /\ SessionInit
  /\ idpUser = IdpUsers[1]
  /\ account = Accounts[1]
  /\ route = "/login"
  /\ DialogInit
  /\ variant = "ui"
  /\ CreateInit

ServiceSpec == ServiceSpecInit /\ [][ServiceNext]_vars

(***************************************************************************)
(* The two create-memory controls: CreateMemoryDialog's Save Memory button *)
(* and MemoriesPage's own Create button.                                   *)
(***************************************************************************)

CreateSpecNext ==
  \/ DialogNext
  \/ CreateNext

\* MemoriesPage shown, with the dialog of ui/.
CreateSpecInit == DialogSpecInit /\ variant = "ui"

CreateSpec == CreateSpecInit /\ [][CreateSpecNext]_vars

(***************************************************************************)
(* The browser left alone: no click, no reload, no expiry.  What runs is   *)
(* what the pages start themselves: the mount effect of the page the       *)
(* router shows, the continuations of checkKeycloakAuth and handleCallback *)
(* and the setTimeout callbacks; each of them runs if it stays pending.    *)
(***************************************************************************)

\* The router shows a protected page that has not run its mount effect yet.
AutoMountProtected(page) == route = page /\ ~mounted /\ MountProtected(page)

AutoMountLogin == route = "/login" /\ ~mounted /\ MountLogin

AutoMountCallback == route = "/auth/callback" /\ ~mounted /\ MountCallback

UnattendedNext ==
  \/ \E page \in ProtectedPages : AutoMountProtected(page)
  \/ AutoMountLogin
  \/ AutoMountCallback
  \/ CheckIsAuthenticated
  \/ CheckGetUser
  \/ CheckGetAccessToken
  \/ CallbackSettles
  \/ CallbackGetAccessToken
  \/ \E t \in timers : TimerFires(t)

UnattendedFairness ==
  /\ WF_vars(\E page \in ProtectedPages : AutoMountProtected(page))
  /\ WF_vars(AutoMountLogin)
  /\ WF_vars(AutoMountCallback)
  /\ WF_vars(CheckIsAuthenticated)
  /\ WF_vars(CheckGetUser)
  /\ WF_vars(CheckGetAccessToken)
  /\ WF_vars(CallbackSettles)
  /\ WF_vars(CallbackGetAccessToken)
  /\ WF_vars(\E t \in timers : TimerFires(t))

UnattendedSpec == Init /\ [][UnattendedNext]_vars /\ UnattendedFairness

(***************************************************************************)
(* The two logins over every shape of the provider's profile and of the    *)
(* backend's answer: each optional claim present, empty or missing.        *)
(***************************************************************************)

\* The provider users: preferred_username, name and email each missing,
\* empty or set.
ProfileUsers ==
  {[present |-> TRUE, sub |-> "kc-sub-1", preferred_username |-> p, name |-> n,
    email |-> e, access_token |-> "tok-1", expired |-> FALSE] :
     p \in {UNDEFINED, "", "kcuser"}, n \in {UNDEFINED, "", "Kay Cloak"},
     e \in {UNDEFINED, "", "kay@kc"}}

\* The accepted logins: `name` missing, null, empty or set.
NamedAccounts ==
  {LoginResponse(TRUE, TRUE, "u-1", n, UNDEFINED) :
     n \in {UNDEFINED, NULL, "", "Alice"}}

NameSpecInit ==
  /\ sessionStorage = EmptyStore
  /\ localStorage = EmptyStore
  /\ oidcUser = NoUser
  /\ env = EnvConfig("https://kc", "mem", "ui")
  /\ \/ idpUser \in ProfileUsers /\ account = Accounts[1]
     \/ idpUser = IdpUsers[1] /\ account \in NamedAccounts
  /\ userManager = FALSE
  /\ route \in {"/login", "/auth/callback"}
  /\ mounted = FALSE
  /\ load = NoLoad
  /\ currentUser = NoCurrentUser
  /\ pcCallback = "idle"
  /\ cbUser = NoUser
  /\ cbStatus = "loading"
  /\ pcCheck = "idle"
  /\ checkUser = NoUser
  /\ pcLogin = "idle"
  /\ loginKey = NULL
  /\ loginUi = LoginUiInit
  /\ alive = {}
  /\ timers = {}
  /\ sinceLogout = FALSE
  /\ ssoSession = FALSE
  /\ lastCall = NoCall
  /\ DialogInit
  /\ variant = "ui"
  /\ CreateInit

NameNext ==
  \/ MountLogin
  \/ CheckIsAuthenticated
  \/ CheckGetUser
  \/ CheckGetAccessToken
  \/ ToggleUseKeycloak
  \/ \E apiKey \in ApiKeys : SubmitApiKey(apiKey)
  \/ LoginResponds(account)
  \/ MountCallback
  \/ CallbackSettles
  \/ CallbackGetAccessToken

NameSpec == NameSpecInit /\ [][NameNext]_vars

(***************************************************************************)
(* The session claims                                                      *)
(***************************************************************************)

\* The stores hold nothing: no key of the application, no OIDC user record.
StoresEmpty ==
  /\ sessionStorage = EmptyStore
  /\ localStorage = EmptyStore
  /\ ~oidcUser.present

\* What a page shows of the value checkAuth read under key k.
Shown(page, k, v) == IF page = "/" /\ k = "api_key" THEN MaskApiKey(v) ELSE v

\* The field of currentUser that checkAuth fills from key k.
UserField(user, k) ==
  IF k = "api_key" THEN user.apiKey
  ELSE IF k = "user_id" THEN user.userId ELSE user.userName

IdentityKeys == {"api_key", "user_id", "user_name"}

\* C7: a protected page that mounts with no api_key in either store redirects
\* to /login, sets no currentUser and issues no data request.
C7_NoKeyNoPageWork ==
  [][\A page \in ProtectedPages :
       (/\ MountProtected(page)
        /\ getItem(sessionStorage, "api_key") = NULL
        /\ getItem(localStorage, "api_key") = NULL)
       => (/\ route' = "/login"
           /\ load'.redirected
           /\ ~currentUser'.set
           /\ load'.requests = {})]_vars

\* C8: once an SSO callback has succeeded (and no logout or new tab came
\* after), a protected page that mounts does not redirect to /login.
C8_SsoSessionRecognized ==
  [][\A page \in ProtectedPages :
       (ssoSession /\ MountProtected(page)) => ~load'.redirected]_vars

C10_LogoutWipesEverything ==
  /\ [][Logout => (StoresEmpty' /\ route' = "/login")]_vars
  /\ [](sinceLogout =>
          (StoresEmpty /\ CheckAuthRedirects(sessionStorage, localStorage)))
  /\ [][\A page \in ProtectedPages :
          (sinceLogout /\ MountProtected(page))
          => (load'.redirected /\ route' = "/login")]_vars

\* C10's case: after a logout, a protected page has mounted and redirected.
C10_Witness ==
  /\ sinceLogout
  /\ load.page # "none"
  /\ load.redirected
  /\ route = "/login"


(***************************************************************************)
(* Properties of the notification handling of the create dialog           *)
(***************************************************************************)

\* The dialogs that have a notification effect.
ResolverVariants == {"ui", "part_002"}

\* The toast severity of a notification type.
ToastKind(type) == IF type = "info" THEN "neutral" ELSE type

\* Whether a type closes the dialog and refreshes the list.
ClosesAndRefreshes(type) == type \in {"success", "info"}

\* `notification.type && notification.message` of the parsed text.
CarriesNotification(text) ==
  LET n == JSONParse(text) IN
  n.ok /\ ~n.isNull /\ Truthy(n.type) /\ Truthy(n.message)

\* C1: once a response that resolves to a warning or an error has been
\* handled (as a JSON string, a structured object or the JSON message of a
\* thrown error), the dialog has not been closed and the memory list has not
\* been fetched again.
C1_WarningErrorKeepsDialog ==
  (Handled /\ variant \in ResolverVariants
           /\ ResolvedType(raw) \in {"warning", "error"})
    => (~out.closed /\ out.refreshed = 0)

\* C2: once a response that resolves to success or info has been handled, the
\* dialog has been closed, the list has been fetched again, and a success
\* toast (for success) or a neutral toast (for info) has been shown.
C2_SuccessInfoClosesAndRefreshes ==
  (Handled /\ variant \in ResolverVariants
           /\ ResolvedType(raw) \in {"success", "info"})
    => /\ out.closed
       /\ out.refreshed >= 1
       /\ \E i \in DOMAIN out.toasts :
            out.toasts[i].kind = ToastKind(ResolvedType(raw))

\* C3: a string notification that is not JSON, or is JSON without a
\* recognized type and message, is an opaque success: one success toast with
\* the raw string (a generic message when the string is empty), the dialog
\* closed and the list fetched again.
C3_OpaqueStringIsSuccess ==
  (Handled /\ variant \in ResolverVariants
           /\ raw.kind = "text" /\ ResolvedType(raw) = "unparseable")
    => /\ Len(out.toasts) = 1
       /\ out.toasts[1].kind = "success"
       /\ \/ out.toasts[1].message = raw.text
          \/ raw.text = "" /\ Truthy(out.toasts[1].message)
       /\ out.closed
       /\ out.refreshed >= 1

C5_StructuredUsedDirectly ==
  (Handled /\ variant \in ResolverVariants
           /\ raw.kind = "structured" /\ ResolvedType(raw) # "unparseable")
    => LET viaString ==
             HandlerFx(variant, "notificationEffect",
                       RawText(JSONStringify([type |-> raw.type,
                                              message |-> raw.message])),
                       NULL, RawNone)
       IN /\ out.toasts = <<Toast(ToastKind(raw.type), raw.message)>>
          /\ out.closed = ClosesAndRefreshes(raw.type)
          /\ out.refreshed = (IF ClosesAndRefreshes(raw.type) THEN 1 ELSE 0)
          /\ out.toasts = viaString.toasts
          /\ out.refreshed = viaString.refreshed
          /\ out.closed = viaString.closed

\* C6: once a response (success payload, structured notification or thrown
\* error) has been handled, exactly one toast has been shown.
C6_ExactlyOneToast ==
  (Handled /\ variant \in ResolverVariants) => Len(out.toasts) = 1



(***************************************************************************)
(* Properties of the stored session                                        *)
(***************************************************************************)

\* A store holds no key of a session.
SessionAbsent(store) == \A k \in Keys : getItem(store, k) = NULL

\* A store holds a user_id and an auth_type, and the credential of that type
\* where the store keeps one (the durable store keeps no access_token).
SessionPopulated(store) ==
  /\ Truthy(getItem(store, "user_id"))
  /\ \/ /\ getItem(store, "auth_type") = "api_key"
        /\ Truthy(getItem(store, "api_key"))
     \/ getItem(store, "auth_type") = "keycloak"

\* C11: in every reachable state each of the two stores holds no session at
\* all, or holds one with its user_id and auth_type populated consistently.
C11_SessionAbsentOrPopulated ==
  \A store \in {sessionStorage, localStorage} :
    SessionAbsent(store) \/ SessionPopulated(store)

\* C12: in every reachable state, in each store, an api_key is stored only
\* with auth_type api_key and an access_token only with auth_type keycloak.
C12_CredentialMatchesAuthType ==
  \A store \in {sessionStorage, localStorage} :
    /\ getItem(store, "api_key") # NULL => getItem(store, "auth_type") = "api_key"
    /\ getItem(store, "access_token") # NULL
         => getItem(store, "auth_type") = "keycloak"

\* The two stores hold the same keys with the same values, except that the
\* durable store may omit access_token.
StoresAgree(ss, ls) ==
  /\ \A k \in Keys \ {"access_token"} : getItem(ss, k) = getItem(ls, k)
  /\ getItem(ls, "access_token") \in {NULL, getItem(ss, "access_token")}

\* handleApiKeyLogin resumes with an accepted login and stores the session.
ApiKeyLoginStores ==
  \E response \in {account} \cup Rejections :
    response.ok /\ response.success /\ LoginResponds(response)

\* checkKeycloakAuth resumes with the token and stores the session.
CheckStores ==
  /\ CheckGetAccessToken
  /\ sessionStorage' = CheckAuthWrites(sessionStorage, checkUser,
                                       getAccessToken(userManager, oidcUser))
  /\ route' = "/"

\* C13: after each step that completes a login (the API-key submit, the SSO
\* callback, the login page's check of an existing SSO login) the two stores
\* agree, but for an access_token the durable store omits.
C13_StoresAgreeAfterLogin ==
  [][(\/ ApiKeyLoginStores
      \/ CallbackGetAccessToken /\ CallbackStores
      \/ CheckStores)
     => StoresAgree(sessionStorage', localStorage')]_vars


\* Both stores hold value v under key k.
BothStoresHold(ss, ls, k, v) == getItem(ss, k) = v /\ getItem(ls, k) = v

\* Both stores hold the session of an API-key login with this key and body.
ApiKeySessionInBoth(ss, ls, apiKey, data) ==
  /\ BothStoresHold(ss, ls, "api_key", apiKey)
  /\ BothStoresHold(ss, ls, "user_id", StringOf(data.user_id))
  /\ BothStoresHold(ss, ls, "user_name",
                    StringOf(IF Truthy(data.name) THEN data.name ELSE data.user_id))

\* Both stores hold the session of an SSO login of this provider user.
SsoSessionInBoth(ss, ls, user) ==
  /\ BothStoresHold(ss, ls, "user_id", StringOf(user.sub))
  /\ BothStoresHold(ss, ls, "user_email",
                    IF Truthy(user.email) THEN user.email ELSE "")
  /\ BothStoresHold(ss, ls, "auth_type", "keycloak")

\* C14: a step of handleApiKeyLogin or handleCallback that writes the session
\* store writes the durable store in the same step (no await lies between the
\* writes, so nothing runs between them), and the step that signals success
\* (the success flag or status, the scheduled redirect) leaves both stores
\* written.
C14_BothStoresWrittenBeforeSuccess ==
  /\ [][\A response \in {account} \cup Rejections :
          (LoginResponds(response) /\ sessionStorage' # sessionStorage)
          => ApiKeySessionInBoth(sessionStorage', localStorage', loginKey, response)]_vars
  /\ [][(CallbackGetAccessToken /\ sessionStorage' # sessionStorage)
          => SsoSessionInBoth(sessionStorage', localStorage', cbUser)]_vars
  /\ [][(\/ loginUi'.success /\ ~loginUi.success
         \/ "login_success" \in timers' /\ "login_success" \notin timers)
        => ApiKeySessionInBoth(sessionStorage', localStorage', loginKey, account)]_vars
  /\ [][(\/ cbStatus' = "success" /\ cbStatus # "success"
         \/ "callback_success" \in timers' /\ "callback_success" \notin timers)
        => SsoSessionInBoth(sessionStorage', localStorage', cbUser)]_vars

\* C14's case: an SSO callback has signalled success over an older API-key
\* session, and both stores hold the SSO session.
C14_Witness ==
  /\ cbStatus = "success"
  /\ "callback_success" \in timers
  /\ getItem(sessionStorage, "api_key") # NULL
  /\ SsoSessionInBoth(sessionStorage, localStorage, idpUser)

\* C16: whatever the token accessor does when handleCallback resumes from it,
\* the login succeeds: the session is stored (with access_token "" when there
\* is no token), the redirect to '/' is scheduled and the status is success.
C16_TokenFailureKeepsLogin ==
  [][CallbackGetAccessToken =>
       /\ SsoSessionInBoth(sessionStorage', localStorage', cbUser)
       /\ ~Truthy(getAccessToken(userManager, oidcUser))
            => getItem(sessionStorage', "access_token") = ""
       /\ "callback_success" \in timers'
       /\ "callback" \in alive => cbStatus' = "success"]_vars

\* C17: when handleCallback resumes with a provider user whose sub is empty,
\* it writes neither store, does not set the status to success and schedules
\* no redirect to '/'.
C17_EmptySubFailsLogin ==
  [][(CallbackGetAccessToken /\ ~Truthy(cbUser.sub)) =>
       /\ sessionStorage' = sessionStorage
       /\ localStorage' = localStorage
       /\ cbStatus' # "success"
       /\ "callback_success" \in timers' => "callback_success" \in timers]_vars


(***************************************************************************)
(* Properties of the login paths and of KeycloakService                    *)
(***************************************************************************)

\* What handleApiKeyLogin does with a response, given whether it takes the
\* response as a success: it stores the session in both stores and schedules
\* the redirect to '/', or else stores nothing, schedules nothing and shows the
\* response's detail, or "Invalid API key" when there is none.
ApiKeyLoginOutcome(response, accepted) ==
  IF accepted
  THEN /\ ApiKeySessionInBoth(sessionStorage', localStorage', loginKey, response)
       /\ getItem(sessionStorage', "auth_type") = "api_key"
       /\ "login_success" \in timers'
       /\ "login" \in alive => loginUi'.success
  ELSE /\ sessionStorage' = sessionStorage
       /\ localStorage' = localStorage
       /\ timers' = timers
       /\ "login" \in alive =>
            /\ ~loginUi'.success
            /\ loginUi'.error =
                 (IF Truthy(response.detail) THEN response.detail
                  ELSE "Invalid API key")

\* C18 (as stated): handleApiKeyLogin stores a session if and only if the
\* response body has success = true; otherwise nothing is stored, no redirect
\* is scheduled and the error shown is the detail or a generic message.
C18_SessionIffSuccess ==
  [][\A response \in {account} \cup Rejections :
       LoginResponds(response) => ApiKeyLoginOutcome(response, response.success)]_vars

\* C18 (amended): handleApiKeyLogin stores a session if and only if the HTTP
\* response is OK and its body has success = true; otherwise nothing is
\* stored, no redirect is scheduled and the error shown is the detail or a
\* generic message.
C18_SessionIffOkAndSuccess ==
  [][\A response \in {account} \cup Rejections :
       LoginResponds(response)
       => ApiKeyLoginOutcome(response, response.ok /\ response.success)]_vars

\* C18's case: a login has been rejected, the page shows the generic message
\* and the stores hold nothing.
C18_Witness ==
  /\ route = "/login"
  /\ pcLogin = "idle"
  /\ loginUi.error = "Invalid API key"
  /\ ~loginUi.success
  /\ SessionAbsent(sessionStorage)
  /\ SessionAbsent(localStorage)
  /\ "login_success" \notin timers

\* url, realm and clientId are all non-empty.
AllConfigured(e) == \A f \in {"url", "realm", "clientId"} : Truthy(e[f])

\* C19: the login page mounts in SSO mode, with a usable KeycloakService, if
\* and only if url, realm and clientId are all non-empty; with any of them
\* missing it mounts in API-key mode and starts no SSO check.
C19_SsoIffAllConfigured ==
  [][MountLogin =>
       /\ loginUi'.useKeycloak = AllConfigured(env)
       /\ AllConfigured(env) => userManager'
       /\ ~AllConfigured(env) =>
            (userManager' = userManager /\ pcCheck' = "idle")]_vars

\* C19's case: the login page has mounted in API-key mode under a
\* configuration that lacks the realm only.
C19_Witness ==
  /\ route = "/login"
  /\ mounted
  /\ ~loginUi.useKeycloak
  /\ ~userManager
  /\ Truthy(env.url)
  /\ ~Truthy(env.realm)
  /\ Truthy(env.clientId)

\* C20: once initialize() has run, the service is usable (isConfigured() is
\* true, and login, logout and handleCallback do not throw 'Keycloak not
\* initialized') exactly when the most recent initialize() returned true.
C20_UsableIffLatestInitialize ==
  lastCall.initialized # "never" =>
    /\ isConfigured(userManager) = (lastCall.initialized = "true")
    /\ lastCall.op \in {"login", "logout", "handleCallback"} =>
         ((lastCall.result = "Keycloak not initialized")
            = (lastCall.initialized = "false"))


\* C15: when a login has been cut short after its sessionStorage writes, a
\* checkAuth that runs next in the same tab finds the session (no redirect)
\* and takes api_key, user_id and user_name from sessionStorage, whatever
\* localStorage holds.
C15_InterruptedLoginReadFromSession ==
  [][(ApiKeyLoginInterrupted \/ CallbackInterrupted) =>
       /\ ~CheckAuthRedirects(sessionStorage', localStorage')
       /\ CheckAuthRead(sessionStorage', localStorage') =
            [apiKey |-> getItem(sessionStorage', "api_key"),
             userId |-> getItem(sessionStorage', "user_id"),
             userName |-> getItem(sessionStorage', "user_name")]]_vars

(***************************************************************************)
(* Properties of the create-memory controls, of navigation and of failures *)
(***************************************************************************)

\* The mounted view's control is disabled exactly while a request the view
\* started is in flight: MemoriesPage's Create button through `creating`,
\* the dialog's Save Memory button through the hook's isLoading.
ControlFollowsRequest ==
  /\ (ownRequests >= 1) = creating
  /\ creating => CreateDisabled(newMemoryContent, creating)
  /\ (phase = "pending") = isLoading

\* C21 (as stated): at most one create-memory request is in flight at any
\* time, and the submitting control is disabled from the start of a
\* submission until the request settles, with success or with failure.
C21_AtMostOneInFlight ==
  /\ createRequests <= 1
  /\ ControlFollowsRequest

\* C21 (amended): at most one create-memory request started by the mounted
\* view is in flight at any time, and the view's submitting control is
\* disabled from the start of a submission until the request settles, with
\* success or with failure; a request of a view the user has left stays in
\* flight beside a request of the view shown.
C21_OneRequestPerMountedView ==
  /\ ownRequests <= 1
  /\ ControlFollowsRequest

\* C21's case: a request of the mounted MemoriesPage is in flight, the
\* textarea holds text, and the Create button is disabled.
C21_Witness ==
  /\ ownRequests = 1
  /\ creating
  /\ showCreateDialog
  /\ Truthy(Trim(newMemoryContent))
  /\ CreateDisabled(newMemoryContent, creating)

\* The route of the view that schedules each setTimeout callback.
TimerOrigin(t) == IF t = "login_success" THEN "/login" ELSE "/auth/callback"

\* A call or timer settles whose view is no longer mounted.
LateSettlement ==
  \/ /\ "login" \notin alive
     /\ \/ \E response \in {account} \cup Rejections : LoginResponds(response)
        \/ LoginFails
  \/ /\ "callback" \notin alive
     /\ \/ CallbackSettles
        \/ CallbackGetAccessToken
  \/ /\ "check" \notin alive
     /\ \/ CheckIsAuthenticated
        \/ CheckGetUser
        \/ CheckGetAccessToken
  \/ \E t \in timers : route # TimerOrigin(t) /\ TimerFires(t)

\* C22: when a login request, an SSO callback, an SSO check or a scheduled
\* redirect settles after the user has left the view that started it, the
\* route and the two stores stay as they are.
C22_LateSettlementIsNoOp ==
  [][LateSettlement =>
       /\ route' = route
       /\ sessionStorage' = sessionStorage
       /\ localStorage' = localStorage]_vars

\* A step schedules the setTimeout callback t.
Scheduled(t) == t \in timers' /\ t \notin timers

\* C23: a run of handleCallback ends in one of two outcomes, never both:
\* status success with the redirect to '/' scheduled, or status error with
\* the redirect to '/login' scheduled; every run reaches one of them, the
\* scheduled redirect happens, and a failed callback (SSO not configured, a
\* provider error, no user) is never sent to '/'.
C23_CallbackEndsInOneOutcome ==
  /\ [][/\ Scheduled("callback_success") = (cbStatus' = "success" /\ cbStatus # "success")
        /\ Scheduled("callback_error") = (cbStatus' = "error" /\ cbStatus # "error")
        /\ ~(Scheduled("callback_success") /\ Scheduled("callback_error"))]_vars
  /\ [][\A t \in {"callback_success", "callback_error"} :
          TimerFires(t) =>
            route' = (IF t = "callback_error" THEN "/login" ELSE "/")]_vars
  /\ [](cbStatus = "error" => "callback_success" \notin timers)
  /\ (pcCallback # "idle") ~> (cbStatus \in {"success", "error"})
  /\ (cbStatus = "error") ~> (route = "/login")
  /\ (cbStatus = "success") ~> (route = "/")

\* C23's case: the provider has rejected the callback of a configured SSO;
\* the page shows the error and the redirect to /login is pending.
C23_Witness ==
  /\ route = "/auth/callback"
  /\ initialize(env)
  /\ cbStatus = "error"
  /\ timers = {"callback_error"}
  /\ pcCallback = "idle"

\* C27: once an SSO callback has succeeded (SSO configured, the provider
\* user unexpired), navigation settles: from some point on the router shows
\* '/' with MemoriesPage mounted, for good.  The formula also lets the
\* navigation come to rest on the login page (which it does when the SSO check
\* of the login page throws), so that what violates it is the endless cycle
\* between '/' and '/login' alone.
C27_SsoLoginSettlesOnDashboard ==
  ssoSession ~> (\/ [](route = "/" /\ mounted)
                 \/ [](route = "/login" /\ mounted /\ pcCheck = "idle"))

\* C24 (its create-memory part): once a failed createMemory has been handled,
\* the rejection has been caught by the dialog, one message (a toast or an
\* alert) has been shown, and the Save Memory button is enabled again.
C24_FailuresCaughtAndReported ==
  (Handled /\ raw.kind = "failure")
    => /\ "catch" \in HandlersFor(variant, raw)
       /\ Len(out.toasts) + Len(out.alerts) = 1
       /\ ~isLoading

\* The first value of a precedence list that is neither missing nor empty,
\* and the last value of the list when there is none.
FirstNonEmpty(values) ==
  LET set == {i \in DOMAIN values : values[i] \notin {UNDEFINED, NULL, ""}} IN
  IF set = {} THEN values[Len(values)]
  ELSE values[CHOOSE i \in set : \A j \in set : i <= j]

\* C25: the user_name a login stores is the first non-empty value of its
\* precedence list: preferred_username, name, sub for the SSO callback and the
\* login page's SSO check; the response's name, user_id for the API-key
\* login.  The user_email the SSO callback stores is the email claim, or the
\* empty string.
C25_UserNamePrecedence ==
  /\ [][(CallbackGetAccessToken /\ CallbackStores) =>
          /\ BothStoresHold(sessionStorage', localStorage', "user_name",
               StringOf(FirstNonEmpty(
                 <<cbUser.preferred_username, cbUser.name, cbUser.sub>>)))
          /\ BothStoresHold(sessionStorage', localStorage', "user_email",
               FirstNonEmpty(<<cbUser.email, "">>))]_vars
  /\ [][CheckStores =>
          getItem(sessionStorage', "user_name") =
            StringOf(FirstNonEmpty(
              <<checkUser.preferred_username, checkUser.name, checkUser.sub>>))]_vars
  /\ [][ApiKeyLoginStores =>
          BothStoresHold(sessionStorage', localStorage', "user_name",
            StringOf(FirstNonEmpty(<<account.name, account.user_id>>)))]_vars

\* C25's case: an SSO callback has succeeded for a user whose
\* preferred_username is empty; the name claim and the email are stored.
C25_Witness ==
  /\ cbStatus = "success"
  /\ idpUser.preferred_username = ""
  /\ BothStoresHold(sessionStorage, localStorage, "user_name", "Kay Cloak")
  /\ BothStoresHold(sessionStorage, localStorage, "user_email", "kay@kc")

\* The value the two stores give for key k: the session-scoped one unless it
\* is missing or empty, then the durable one.
StoredValue(ss, ls, k) ==
  IF getItem(ss, k) \notin {NULL, ""} THEN getItem(ss, k) ELSE getItem(ls, k)

\* C26: checkAuth changes neither store, and what it returns is what a
\* second call returns on the storage the first call left: absent (a
\* redirect) when no api_key is stored, else the same apiKey, userId and
\* userName.
C26_CheckIsIdempotentAndReadOnly ==
  [][\A page \in ProtectedPages :
       MountProtected(page) =>
         /\ sessionStorage' = sessionStorage
         /\ localStorage' = localStorage
         /\ oidcUser' = oidcUser
         /\ LET found == StoredValue(sessionStorage', localStorage', "api_key")
                           \notin {NULL, ""}
            IN /\ load'.redirected = ~found
               /\ currentUser'.set = found
               /\ found =>
                    /\ currentUser' =
                         CheckAuthUser(page, sessionStorage', localStorage')
                    /\ \A k \in IdentityKeys :
                         UserField(currentUser', k) =
                           Shown(page, k,
                                 StoredValue(sessionStorage', localStorage', k))]_vars

\* C26's case: in a new tab a protected page has mounted and found the
\* session of the durable store.
C26_Witness ==
  /\ load.page # "none"
  /\ ~load.redirected
  /\ currentUser.set
  /\ getItem(sessionStorage, "api_key") = NULL
  /\ getItem(localStorage, "api_key") # NULL
  /\ currentUser.userId = getItem(localStorage, "user_id")

\* C28: the session checkAuth returns is that of one login: its apiKey can
\* only come from an API-key login, so its userId and userName are the ones
\* that login stored.
C28_SessionOfOneLogin ==
  [][\A page \in ProtectedPages :
       (MountProtected(page) /\ currentUser'.set) =>
         /\ currentUser'.userId = StringOf(account.user_id)
         /\ currentUser'.userName =
              StringOf(FirstNonEmpty(<<account.name, account.user_id>>))]_vars

\* A step of a login attempt: of LoginPage's mount and SSO check, of
\* handleApiKeyLogin, or of handleCallback.
LoginAttemptStep ==
  \/ MountLogin
  \/ CheckIsAuthenticated
  \/ CheckGetUser
  \/ CheckGetAccessToken
  \/ \E apiKey \in ApiKeys : SubmitApiKey(apiKey)
  \/ \E response \in {account} \cup Rejections : LoginResponds(response)
  \/ LoginFails
  \/ MountCallback
  \/ CallbackSettles
  \/ CallbackGetAccessToken

\* The step that completes a login: an accepted API-key login, a callback or
\* an SSO check that got its user and its token.
LoginSuccessStep ==
  \/ ApiKeyLoginStores
  \/ CallbackGetAccessToken /\ CallbackStores
  \/ CheckStores

============================================================================
